---- MODULE Spec2Model ----
(***************************************************************************)
(* The AI journal-parsing pipeline of the health journal: parseJournalEntry, *)
(* getProcessingStatus and retryProcessing (aiController, the second half  *)
(* of src/controllers/journalController.js) over the Journal, Meal,        *)
(* Medicine, BodyStat and Test stores of src/models.                       *)
(*                                                                         *)
(* Every await of a handler is one atomic step of the operation that runs  *)
(* it, taken together with the synchronous code that follows it up to the  *)
(* next await; steps of different operations interleave.  The store is     *)
(* available; a write is rejected exactly when the document breaks the     *)
(* schema of its model.  Texts are sequences of one-character strings; an  *)
(* absent string is "", an absent number 0 (the code tests both with ||    *)
(* and if, which do not tell them apart), an absent object <<>> and a      *)
(* present one <<v>>.  Schema fields that no modelled operation reads      *)
(* (tags, mood, energy, notes, timestamps) are left out.                   *)
(***************************************************************************)
EXTENDS Integers, Sequences, FiniteSets, TLC

\* ------------------------------------------------------------------ bounds
MaxOps == 2
MaxInFlight == 2

\* ------------------------------------------------------------------ inputs
Users == {"u1", "u2"}

\* the clock reading that new Date() returns
Now == 9

\* requests to POST /api/ai/parse-journal: the authenticated user, and the
\* rawText and optional date of the body
Requests ==
  { [userId |-> "u1", rawText |-> <<>>,              date |-> 0],
    [userId |-> "u1", rawText |-> <<" ">>,           date |-> 0],
    [userId |-> "u1", rawText |-> <<" ", "a", " ">>, date |-> 0],
    [userId |-> "u2", rawText |-> <<"b">>,           date |-> 1] }

\* ------------------------------------------------------------------ text
RECURSIVE TrimLeft(_)
TrimLeft(s) == IF s # <<>> /\ Head(s) = " " THEN TrimLeft(Tail(s)) ELSE s

RECURSIVE TrimRight(_)
TrimRight(s) ==
  IF s # <<>> /\ s[Len(s)] = " " THEN TrimRight(SubSeq(s, 1, Len(s) - 1)) ELSE s

NoTrim(s) == s

\* String.prototype.trim, and the trim setter of a schema string
Trim(s) == TrimRight(TrimLeft(s))

\* ------------------------------------------------------------------ schemas
TimesOfDay == {"morning", "noon", "evening", "night"}
Moods == {"excellent", "good", "okay", "poor", "terrible"}
Energies == {"high", "medium", "low"}
Statuses == {"pending", "processing", "completed", "failed"}

\* ------------------------------------------------------------------ the
\* JSON documents the extraction service returns, one per letter
NoBodyStats ==
  [waterIntakeLiters |-> 0, weightKg |-> 0, sleepHours |-> 0, steps |-> 0,
   mood |-> "", energy |-> ""]

EmptyDoc == [meals |-> <<>>, medicines |-> <<>>, bodyStats |-> <<>>, tests |-> <<>>]

LunchDoc ==
  [meals |-> << [time |-> "noon", items |-> <<"dal", "chawal">>,
                 quantity |-> "", calories |-> 0] >>,
   medicines |-> <<>>,
   bodyStats |-> << [NoBodyStats EXCEPT !.waterIntakeLiters = 2] >>,
   tests |-> <<>>]

FullDoc ==
  [meals |-> << [time |-> "morning", items |-> <<"egg">>,
                 quantity |-> "2 pieces", calories |-> 150] >>,
   medicines |-> << [name |-> "aspirin", time |-> "night", dosage |-> "1 tablet"] >>,
   bodyStats |-> << [NoBodyStats EXCEPT !.weightKg = 70, !.mood = "good"] >>,
   tests |-> << [testName |-> "HbA1c", result |-> "high", resultValue |-> 7,
                 unit |-> "%", referenceRange |-> << [min |-> 4, max |-> 6, unit |-> "%"] >>] >>]

\* a well-formed document whose weight is below the minimum of bodyStatSchema
LightDoc ==
  [meals |-> << [time |-> "evening", items |-> <<"rice">>,
                 quantity |-> "", calories |-> 200] >>,
   medicines |-> <<>>,
   bodyStats |-> << [NoBodyStats EXCEPT !.weightKg = 15] >>,
   tests |-> << [testName |-> "CBC", result |-> "normal", resultValue |-> 0,
                 unit |-> "", referenceRange |-> <<>>] >>]

\* a bodyStats object none of whose fields is set (null everywhere)
NullStatsDoc ==
  [meals |-> <<>>, medicines |-> <<>>, bodyStats |-> << NoBodyStats >>, tests |-> <<>>]

\* two meals, the first with two items, the second with neither quantity
\* nor calories
PairDoc ==
  [meals |-> << [time |-> "morning", items |-> <<"idli", "sambar">>,
                 quantity |-> "1 plate", calories |-> 300],
                [time |-> "night", items |-> <<"roti">>,
                 quantity |-> "", calories |-> 0] >>,
   medicines |-> << [name |-> "metformin", time |-> "morning", dosage |-> "500mg"] >>,
   bodyStats |-> <<>>,
   tests |-> << [testName |-> "TSH", result |-> "low", resultValue |-> 0,
                 unit |-> "", referenceRange |-> <<>>] >>]

\* no meal, and a bodyStats object with the hours of sleep
SleepDoc ==
  [meals |-> <<>>, medicines |-> <<>>,
   bodyStats |-> << [NoBodyStats EXCEPT !.sleepHours = 8] >>, tests |-> <<>>]

Docs == [e |-> EmptyDoc, l |-> LunchDoc, f |-> FullDoc, w |-> LightDoc,
         n |-> NullStatsDoc, p |-> PairDoc, s |-> SleepDoc]

\* what axios.post resolves to: response.data.choices[0].message.content
AiTexts == { <<" ", "g", " ">>, <<"e">>, <<"l">>, <<"f">>, <<"w">> }

\* further answers of the service: a text that is no JSON, and documents
\* one of which comes with a blank before it
AiTextsDocs == { <<"x">>, <<"n">>, <<"p">>, <<" ", "s">>, <<"w">> }

\* what axios.post rejects with: aiError.message (the call sets no timeout
\* of its own, so a timeout is one the connection reports)
AiErrors == { "", "connect ETIMEDOUT" }

JSONParseLoose(text) == IF Len(text) >= 1 /\ text[1] \in DOMAIN Docs
                          THEN << Docs[text[1]] >> ELSE << Docs["e"] >>

\* JSON.parse: <<doc>> when the text is a JSON document (whitespace around
\* it is skipped), <<>> when it throws
JSONParse(text) ==
  LET t == Trim(text)
  IN  IF Len(t) = 1 /\ t[1] \in DOMAIN Docs THEN << Docs[t[1]] >> ELSE <<>>

\* ------------------------------------------------------------------ records
OrStrNoDefault(x, d) == x

\* `x || d` on a string
OrStr(x, d) == IF x = "" THEN d ELSE x

\* `date || new Date()`
OrNow(date) == IF date = 0 THEN Now ELSE date

RECURSIVE SumCalories(_)
SumCalories(items) ==
  IF items = <<>> THEN 0 ELSE Head(items).calories + SumCalories(Tail(items))

\* Meal.create without the two journal fields: the schema defaults apply
MealRecordUnlinked(userId, date, journalEntryId, mealData) ==
  LET foodItems == [i \in 1..Len(mealData.items) |->
                      [name |-> mealData.items[i],
                       quantity |-> IF mealData.quantity = "" THEN "1 serving"
                                    ELSE mealData.quantity,
                       calories |-> mealData.calories]]
  IN  [userId |-> userId,
       date |-> IF date = 0 THEN Now ELSE date,
       time |-> IF mealData.time = "" THEN "morning" ELSE mealData.time,
       foodItems |-> foodItems,
       totalCalories |-> 0,
       isFromJournal |-> FALSE,
       journalEntryId |-> 0]

\* Meal.create with the quantity and the calories given to the first item
\* only
MealRecordFirstItem(userId, date, journalEntryId, mealData) ==
  LET foodItems == [i \in 1..Len(mealData.items) |->
                      [name |-> mealData.items[i],
                       quantity |-> IF i = 1 THEN OrStr(mealData.quantity, "1 serving")
                                    ELSE "1 serving",
                       calories |-> IF i = 1 THEN mealData.calories ELSE 0]]
  IN  [userId |-> userId,
       date |-> OrNow(date),
       time |-> OrStr(mealData.time, "morning"),
       foodItems |-> foodItems,
       totalCalories |-> SumCalories(foodItems),
       isFromJournal |-> TRUE,
       journalEntryId |-> journalEntryId]

\* the document Meal.create receives, after the schema defaults and the
\* pre-save hook that totals the calories
MealRecord(userId, date, journalEntryId, mealData) ==
  LET foodItems == [i \in 1..Len(mealData.items) |->
                      [name |-> mealData.items[i],
                       quantity |-> OrStr(mealData.quantity, "1 serving"),
                       calories |-> mealData.calories]]
  IN  [userId |-> userId,
       date |-> OrNow(date),
       time |-> OrStr(mealData.time, "morning"),
       foodItems |-> foodItems,
       totalCalories |-> SumCalories(foodItems),
       isFromJournal |-> TRUE,
       journalEntryId |-> journalEntryId]

MealValid(m) ==
  /\ m.time \in TimesOfDay
  /\ \A i \in 1..Len(m.foodItems) :
        /\ m.foodItems[i].name # ""
        /\ m.foodItems[i].quantity # ""
        /\ m.foodItems[i].calories >= 0

MedicineRecord(userId, date, journalEntryId, medicineData) ==
  [userId |-> userId,
   name |-> medicineData.name,
   dosage |-> medicineData.dosage,
   time |-> medicineData.time,
   startDate |-> OrNow(date),
   isFromJournal |-> TRUE,
   journalEntryId |-> journalEntryId]

MedicineValid(m) == m.name # "" /\ m.dosage # "" /\ m.time \in TimesOfDay

\* bodyStatsData: a field is set only when the decoded value is truthy
BodyStatRecord(userId, date, journalEntryId, b) ==
  [userId |-> userId,
   date |-> OrNow(date),
   waterIntake |-> b.waterIntakeLiters,
   weight |-> b.weightKg,
   sleepHours |-> b.sleepHours,
   steps |-> b.steps,
   mood |-> OrStr(b.mood, "okay"),
   energy |-> OrStr(b.energy, "medium"),
   isFromJournal |-> TRUE,
   journalEntryId |-> journalEntryId]

BodyStatValid(b) ==
  /\ b.weight = 0 \/ (b.weight >= 20 /\ b.weight <= 500)
  /\ b.waterIntake >= 0 /\ b.waterIntake <= 50
  /\ b.sleepHours >= 0 /\ b.sleepHours <= 24
  /\ b.steps >= 0
  /\ b.mood \in Moods
  /\ b.energy \in Energies

\* the pre-save hook of testSchema
TestStatus(resultValue, referenceRange) ==
  IF resultValue # 0 /\ referenceRange # <<>>
    THEN IF resultValue < referenceRange[1].min THEN "low"
         ELSE IF resultValue > referenceRange[1].max THEN "high"
         ELSE "normal"
    ELSE "normal"

TestRecord(userId, date, journalEntryId, testData) ==
  [userId |-> userId,
   testName |-> testData.testName,
   date |-> OrNow(date),
   result |-> testData.result,
   resultValue |-> testData.resultValue,
   unit |-> testData.unit,
   referenceRange |-> testData.referenceRange,
   status |-> TestStatus(testData.resultValue, testData.referenceRange),
   isFromJournal |-> TRUE,
   journalEntryId |-> journalEntryId]

TestValid(t) == t.testName # "" /\ t.result # ""

\* the document Journal.create stores when processingStatus is left to the
\* default of journalSchema
JournalRecordDefaultStatus(userId, date, rawText, processingStatus) ==
  [userId |-> userId,
   date |-> date,
   rawText |-> Trim(rawText),
   parsedData |-> <<>>,
   isProcessed |-> FALSE,
   processingStatus |-> "pending",
   processingError |-> "",
   aiResponse |-> <<>>]

\* the document Journal.create stores, with the defaults of journalSchema
JournalRecord(userId, date, rawText, processingStatus) ==
  [userId |-> userId,
   date |-> date,
   rawText |-> Trim(rawText),
   parsedData |-> <<>>,
   isProcessed |-> FALSE,
   processingStatus |-> processingStatus,
   processingError |-> "",
   aiResponse |-> <<>>]

\* ------------------------------------------------------------------ state
VARIABLES
  journals,    \* the Journal collection; an entry's _id is its index
  meals,       \* the Meal collection
  medicines,   \* the Medicine collection
  bodyStats,   \* the BodyStat collection
  tests,       \* the Test collection
  ops          \* the requests received so far, with their handler's locals

vars == <<journals, meals, medicines, bodyStats, tests, ops>>
derived == <<meals, medicines, bodyStats, tests>>

NoRes == [status |-> 0, message |-> "", journalId |-> 0,
          rawResponse |-> <<>>, created |-> <<0, 0, 0, 0>>, data |-> <<>>]

\* a handler that has not yet assigned any of its locals
NewOp(kind, userId, rawText, date, journalId) ==
  [kind |-> kind, pc |-> "start", userId |-> userId,
   rawText |-> rawText, date |-> date, journalId |-> journalId,
   journal |-> <<>>, journalEntry |-> 0, aiResponse |-> <<>>,
   parsedData |-> <<>>, idx |-> 0, err |-> "", res |-> NoRes]

InFlight == {o \in 1..Len(ops) : ops[o].pc # "done"}

\* res.status(..).json(..): the handler returns and its locals are dead
Respond(op, res) ==
  [op EXCEPT !.pc = "done", !.journal = <<>>, !.journalEntry = 0,
             !.aiResponse = <<>>, !.parsedData = <<>>, !.idx = 0, !.err = "",
             !.res = res]

Init ==
  /\ journals = <<>>
  /\ meals = <<>>
  /\ medicines = <<>>
  /\ bodyStats = <<>>
  /\ tests = <<>>
  /\ ops = <<>>

\* ------------------------------------------------------------------ the
\* order of the fan-out: meals, medicines, bodyStats, tests
StagePc == <<"p_meals", "p_medicines", "p_bodyStats", "p_tests">>

Count(doc, k) ==
  CASE k = 1 -> Len(doc.meals)
    [] k = 2 -> Len(doc.medicines)
    [] k = 3 -> Len(doc.bodyStats)
    [] k = 4 -> Len(doc.tests)

\* the first stage from k on whose `if` is taken, 5 when there is none
RECURSIVE FirstFrom(_, _)
FirstFrom(doc, k) ==
  IF k > 4 THEN 5 ELSE IF Count(doc, k) > 0 THEN k ELSE FirstFrom(doc, k + 1)

\* createdItems with bodyStats counted whether or not the document has them
CreatedItemsBodyStatsAlways(doc) ==
  << Len(doc.meals), Len(doc.medicines), 1, Len(doc.tests) >>

\* createdItems of the success response
CreatedItems(doc) ==
  << Len(doc.meals), Len(doc.medicines),
     IF doc.bodyStats # <<>> THEN 1 ELSE 0, Len(doc.tests) >>

SuccessRes(op) ==
  [NoRes EXCEPT !.status = 200,
                !.message = "Journal entry parsed successfully",
                !.journalId = op.journalEntry,
                !.created = CreatedItems(op.parsedData[1])]

\* the handler after a write when a loop ends after its first iteration
AdvanceOnePerGroup(op, k, idx) ==
  LET doc == op.parsedData[1]
      nk  == FirstFrom(doc, k + 1)
  IN  IF nk = 5 THEN Respond(op, SuccessRes(op))
      ELSE [op EXCEPT !.pc = StagePc[nk], !.idx = 1]

\* the handler after the write idx of stage k (k = 0: after the status
\* update): at the next write, or at res.status(200) when none is left
Advance(op, k, idx) ==
  LET doc == op.parsedData[1]
      nk  == IF k >= 1 /\ idx < Count(doc, k) THEN k ELSE FirstFrom(doc, k + 1)
      ni  == IF k >= 1 /\ idx < Count(doc, k) THEN idx + 1 ELSE 1
  IN  IF nk = 5 THEN Respond(op, SuccessRes(op))
      ELSE [op EXCEPT !.pc = StagePc[nk], !.idx = ni]

\* a rejected write: control goes to catch (aiError)
Throw(op, message) == [op EXCEPT !.pc = "p_catch", !.err = message, !.idx = 0]

\* the handler of request o continues as op
SetOp(o, op) == ops' = [ops EXCEPT ![o] = op]

\* the negation of `!rawText || !rawText.trim()`
AcceptsText(rawText) == rawText # <<>> /\ Trim(rawText) # <<>>

\* parseJournalEntry up to the end of Journal.create: the handler after it
ParseStart(op) ==
  IF ~AcceptsText(op.rawText)
    THEN Respond(op, [NoRes EXCEPT !.status = 400,
                                   !.message = "Journal text is required"])
    ELSE [op EXCEPT !.pc = "p_ai", !.journalEntry = Len(journals) + 1]

\* parseJournalEntry up to the end of Journal.create: the collection after it
ParseStartCreate(op) ==
  IF ~AcceptsText(op.rawText)
    THEN journals
    ELSE Append(journals, JournalRecord(op.userId, OrNow(op.date),
                                        Trim(op.rawText), "processing"))

CanArrive == Len(ops) < MaxOps /\ Cardinality(InFlight) < MaxInFlight

\* POST /api/ai/parse-journal arrives and runs to the end of Journal.create
SubmitRequest(r) ==
  /\ CanArrive
  /\ LET op == NewOp("submit", r.userId, r.rawText, r.date, 0)
     IN  /\ journals' = ParseStartCreate(op)
         /\ ops' = Append(ops, ParseStart(op))
  /\ UNCHANGED derived

\* parseJournalEntry as called by retryProcessing, to the end of Journal.create
RetryParseStart(o) ==
  /\ o \in InFlight
  /\ ops[o].pc = "p_start"
  /\ journals' = ParseStartCreate(ops[o])
  /\ SetOp(o, ParseStart(ops[o]))
  /\ UNCHANGED derived

\* axios.post resolves; JSON.parse of the content
AiReturns(o, text) ==
  /\ o \in InFlight
  /\ ops[o].pc = "p_ai"
  /\ LET parsed == JSONParse(text)
     IN  SetOp(o, [ops[o] EXCEPT !.aiResponse = text,
                                 !.parsedData = parsed,
                                 !.pc = IF parsed = <<>> THEN "p_decfail"
                                                         ELSE "p_complete"])
  /\ UNCHANGED <<journals, derived>>

\* axios.post rejects
AiFails(o, message) ==
  /\ o \in InFlight
  /\ ops[o].pc = "p_ai"
  /\ SetOp(o, Throw(ops[o], message))
  /\ UNCHANGED <<journals, derived>>

\* catch (parseError): the entry is marked failed and the raw text kept
DecodeFailed(o) ==
  /\ o \in InFlight
  /\ ops[o].pc = "p_decfail"
  /\ journals' = [journals EXCEPT ![ops[o].journalEntry] =
        [@ EXCEPT !.processingStatus = "failed",
                  !.processingError = "Failed to parse AI response as JSON",
                  !.aiResponse = << Trim(ops[o].aiResponse) >>]]
  /\ SetOp(o, Respond(ops[o],
        [NoRes EXCEPT !.status = 500,
                      !.message = "Failed to parse AI response",
                      !.journalId = ops[o].journalEntry,
                      !.rawResponse = << ops[o].aiResponse >>]))
  /\ UNCHANGED derived

\* the update addressed to the entry created last, as a variable shared by
\* the handlers would have it
MarkCompletedLatest(o) ==
  /\ o \in InFlight
  /\ ops[o].pc = "p_complete"
  /\ journals' = [journals EXCEPT ![Len(journals)] =
        [@ EXCEPT !.parsedData = ops[o].parsedData,
                  !.isProcessed = TRUE,
                  !.processingStatus = "completed",
                  !.aiResponse = << Trim(ops[o].aiResponse) >>]]
  /\ SetOp(o, Advance(ops[o], 0, 0))
  /\ UNCHANGED derived

\* the update with the status alone
MarkCompletedStatusOnly(o) ==
  /\ o \in InFlight
  /\ ops[o].pc = "p_complete"
  /\ journals' = [journals EXCEPT ![ops[o].journalEntry] =
        [@ EXCEPT !.processingStatus = "completed"]]
  /\ SetOp(o, Advance(ops[o], 0, 0))
  /\ UNCHANGED derived

\* the update after a successful JSON.parse
MarkCompleted(o) ==
  /\ o \in InFlight
  /\ ops[o].pc = "p_complete"
  /\ journals' = [journals EXCEPT ![ops[o].journalEntry] =
        [@ EXCEPT !.parsedData = ops[o].parsedData,
                  !.isProcessed = TRUE,
                  !.processingStatus = "completed",
                  !.aiResponse = << Trim(ops[o].aiResponse) >>]]
  /\ SetOp(o, Advance(ops[o], 0, 0))
  /\ UNCHANGED derived

\* one iteration of `for (const mealData of parsedData.meals)`
MealCreate(o) ==
  /\ o \in InFlight
  /\ ops[o].pc = "p_meals"
  /\ LET op  == ops[o]
         rec == MealRecord(op.userId, op.date, op.journalEntry,
                           op.parsedData[1].meals[op.idx])
     IN  IF MealValid(rec)
           THEN /\ meals' = Append(meals, rec)
                /\ SetOp(o, Advance(op, 1, op.idx))
           ELSE /\ SetOp(o, Throw(op, "Meal validation failed"))
                /\ UNCHANGED meals
  /\ UNCHANGED <<journals, medicines, bodyStats, tests>>

\* one iteration of `for (const medicineData of parsedData.medicines)`
MedicineCreate(o) ==
  /\ o \in InFlight
  /\ ops[o].pc = "p_medicines"
  /\ LET op  == ops[o]
         rec == MedicineRecord(op.userId, op.date, op.journalEntry,
                               op.parsedData[1].medicines[op.idx])
     IN  IF MedicineValid(rec)
           THEN /\ medicines' = Append(medicines, rec)
                /\ SetOp(o, Advance(op, 2, op.idx))
           ELSE /\ SetOp(o, Throw(op, "Medicine validation failed"))
                /\ UNCHANGED medicines
  /\ UNCHANGED <<journals, meals, bodyStats, tests>>

\* `if (parsedData.bodyStats) { ... await BodyStat.create(bodyStatsData) }`
BodyStatCreate(o) ==
  /\ o \in InFlight
  /\ ops[o].pc = "p_bodyStats"
  /\ LET op  == ops[o]
         rec == BodyStatRecord(op.userId, op.date, op.journalEntry,
                               op.parsedData[1].bodyStats[1])
     IN  IF BodyStatValid(rec)
           THEN /\ bodyStats' = Append(bodyStats, rec)
                /\ SetOp(o, Advance(op, 3, op.idx))
           ELSE /\ SetOp(o, Throw(op, "BodyStat validation failed"))
                /\ UNCHANGED bodyStats
  /\ UNCHANGED <<journals, meals, medicines, tests>>

\* one iteration of `for (const testData of parsedData.tests)`
TestCreate(o) ==
  /\ o \in InFlight
  /\ ops[o].pc = "p_tests"
  /\ LET op  == ops[o]
         rec == TestRecord(op.userId, op.date, op.journalEntry,
                           op.parsedData[1].tests[op.idx])
     IN  IF TestValid(rec)
           THEN /\ tests' = Append(tests, rec)
                /\ SetOp(o, Advance(op, 4, op.idx))
           ELSE /\ SetOp(o, Throw(op, "Test validation failed"))
                /\ UNCHANGED tests
  /\ UNCHANGED <<journals, meals, medicines, bodyStats>>

\* catch (aiError) that also deletes the derived records of the entry
CatchAiErrorRollsBack(o) ==
  LET Kept(r) == r.journalEntryId # ops[o].journalEntry
  IN  /\ o \in InFlight
      /\ ops[o].pc = "p_catch"
      /\ journals' = [journals EXCEPT ![ops[o].journalEntry] =
            [@ EXCEPT !.processingStatus = "failed",
                      !.processingError = OrStr(ops[o].err, "AI API call failed")]]
      /\ SetOp(o, Respond(ops[o],
            [NoRes EXCEPT !.status = 500,
                          !.message = "Failed to process journal entry with AI",
                          !.journalId = ops[o].journalEntry]))
      /\ meals' = SelectSeq(meals, Kept)
      /\ medicines' = SelectSeq(medicines, Kept)
      /\ bodyStats' = SelectSeq(bodyStats, Kept)
      /\ tests' = SelectSeq(tests, Kept)

\* catch (aiError) without its update of the entry
CatchAiErrorResponseOnly(o) ==
  /\ o \in InFlight
  /\ ops[o].pc = "p_catch"
  /\ SetOp(o, Respond(ops[o],
        [NoRes EXCEPT !.status = 500,
                      !.message = "Failed to process journal entry with AI",
                      !.journalId = ops[o].journalEntry]))
  /\ UNCHANGED <<journals, derived>>

\* catch (aiError): the entry is marked failed
CatchAiError(o) ==
  /\ o \in InFlight
  /\ ops[o].pc = "p_catch"
  /\ journals' = [journals EXCEPT ![ops[o].journalEntry] =
        [@ EXCEPT !.processingStatus = "failed",
                  !.processingError = OrStr(ops[o].err, "AI API call failed")]]
  /\ SetOp(o, Respond(ops[o],
        [NoRes EXCEPT !.status = 500,
                      !.message = "Failed to process journal entry with AI",
                      !.journalId = ops[o].journalEntry]))
  /\ UNCHANGED derived

\* Journal.findById(journalId)
FindById(journalId, userId) ==
  IF journalId \in 1..Len(journals) THEN << journals[journalId] >> ELSE <<>>

\* Journal.findOne({ _id: journalId, userId })
FindOne(journalId, userId) ==
  IF journalId \in 1..Len(journals) /\ journals[journalId].userId = userId
    THEN << journals[journalId] >> ELSE <<>>

RetryableAlways(journal) == TRUE

\* the negation of `journal.processingStatus !== 'failed'`
Retryable(journal) == journal.processingStatus = "failed"

\* the retry with its check and its reset in one findOneAndUpdate
RetryRequestResets(u, journalId) ==
  /\ CanArrive
  /\ journalId \in 1..(Len(journals) + 1)
  /\ LET op      == NewOp("retry", u, <<>>, 0, journalId)
         journal == FindOne(journalId, u)
     IN  IF journal # <<>> /\ Retryable(journal[1])
           THEN /\ journals' = [journals EXCEPT ![journalId] =
                      [@ EXCEPT !.processingStatus = "pending", !.processingError = ""]]
                /\ ops' = Append(ops, [op EXCEPT !.pc = "p_start",
                                                 !.journal = journal,
                                                 !.rawText = journal[1].rawText,
                                                 !.date = journal[1].date])
           ELSE /\ ops' = Append(ops, Respond(op,
                      [NoRes EXCEPT !.status = IF journal = <<>> THEN 404 ELSE 400]))
                /\ UNCHANGED journals
  /\ UNCHANGED derived

\* POST /api/ai/retry/:journalId arrives and runs to the end of its checks
RetryRequest(u, journalId) ==
  /\ CanArrive
  /\ journalId \in 1..(Len(journals) + 1)
  /\ LET op      == NewOp("retry", u, <<>>, 0, journalId)
         journal == FindOne(journalId, u)
     IN  ops' = Append(ops,
           IF journal = <<>>
             THEN Respond(op, [NoRes EXCEPT !.status = 404,
                                            !.message = "Journal entry not found"])
           ELSE IF ~Retryable(journal[1])
             THEN Respond(op, [NoRes EXCEPT !.status = 400,
                        !.message = "Journal entry is not in failed status"])
           ELSE [op EXCEPT !.pc = "r_reset", !.journal = journal])
  /\ UNCHANGED <<journals, derived>>

\* the reset followed by a call that passes the rawText without the date
RetryResetNoDate(o) ==
  /\ o \in InFlight
  /\ ops[o].pc = "r_reset"
  /\ journals' = [journals EXCEPT ![ops[o].journalId] =
        [@ EXCEPT !.processingStatus = "pending", !.processingError = ""]]
  /\ SetOp(o, [ops[o] EXCEPT !.pc = "p_start",
                             !.rawText = ops[o].journal[1].rawText])
  /\ UNCHANGED derived

\* the reset with an update that also clears rawText
RetryResetClearsText(o) ==
  /\ o \in InFlight
  /\ ops[o].pc = "r_reset"
  /\ journals' = [journals EXCEPT ![ops[o].journalId] =
        [@ EXCEPT !.processingStatus = "pending", !.processingError = "",
                  !.rawText = <<>>]]
  /\ SetOp(o, [ops[o] EXCEPT !.pc = "p_start",
                             !.rawText = ops[o].journal[1].rawText,
                             !.date = ops[o].journal[1].date])
  /\ UNCHANGED derived

\* the reset of the status, then parseJournalEntry is called with the
\* rawText and date that findOne read
RetryReset(o) ==
  /\ o \in InFlight
  /\ ops[o].pc = "r_reset"
  /\ journals' = [journals EXCEPT ![ops[o].journalId] =
        [@ EXCEPT !.processingStatus = "pending", !.processingError = ""]]
  /\ SetOp(o, [ops[o] EXCEPT !.pc = "p_start",
                             !.rawText = ops[o].journal[1].rawText,
                             !.date = ops[o].journal[1].date])
  /\ UNCHANGED derived

Next ==
  \/ \E r \in Requests : SubmitRequest(r)
  \/ \E u \in Users, j \in 1..MaxOps : RetryRequest(u, j)
  \/ \E o \in 1..MaxOps :
       \/ RetryReset(o)
       \/ RetryParseStart(o)
       \/ \E text \in AiTexts : AiReturns(o, text)
       \/ \E message \in AiErrors : AiFails(o, message)
       \/ DecodeFailed(o)
       \/ MarkCompleted(o)
       \/ MealCreate(o)
       \/ MedicineCreate(o)
       \/ BodyStatCreate(o)
       \/ TestCreate(o)
       \/ CatchAiError(o)

Spec == Init /\ [][Next]_vars

\* ------------------------------------------------------------------ the
\* store fails: an update of a JournalEntry is rejected with an error of the
\* connection and nothing is written

\* the update in catch (parseError) or the update to completed throws
\* inside the try block: control goes to catch (aiError)
UpdateFailsInTry(o) ==
  /\ o \in InFlight
  /\ ops[o].pc \in {"p_decfail", "p_complete"}
  /\ SetOp(o, Throw(ops[o], "connection closed"))
  /\ UNCHANGED <<journals, derived>>

\* the update in catch (aiError) throws: the outer catch answers
UpdateFailsInCatch(o) ==
  /\ o \in InFlight
  /\ ops[o].pc = "p_catch"
  /\ SetOp(o, Respond(ops[o],
        [NoRes EXCEPT !.status = 500,
                      !.message = "Server error during journal parsing"]))
  /\ UNCHANGED <<journals, derived>>

\* the reset of retryProcessing throws: its catch answers
ResetFails(o) ==
  /\ o \in InFlight
  /\ ops[o].pc = "r_reset"
  /\ SetOp(o, Respond(ops[o],
        [NoRes EXCEPT !.status = 500,
                      !.message = "Server error during retry"]))
  /\ UNCHANGED <<journals, derived>>

NextOutage ==
  \/ Next
  \/ \E o \in 1..MaxOps :
       \/ UpdateFailsInTry(o)
       \/ UpdateFailsInCatch(o)
       \/ ResetFails(o)

SpecOutage == Init /\ [][NextOutage]_vars

\* ------------------------------------------------------------------ the
\* handlers of a server started on the stores as a submission of u2 left
\* them whose extraction call failed: one failed entry, no derived record
InitFailed ==
  /\ journals = << [JournalRecord("u2", 1, <<"b">>, "failed")
                     EXCEPT !.processingError = "connect ETIMEDOUT"] >>
  /\ meals = <<>>
  /\ medicines = <<>>
  /\ bodyStats = <<>>
  /\ tests = <<>>
  /\ ops = <<>>

\* the requests that arrive are retries
NextRetries ==
  \/ \E u \in Users, j \in 1..MaxOps : RetryRequest(u, j)
  \/ \E o \in 1..MaxOps :
       \/ RetryReset(o)
       \/ RetryParseStart(o)
       \/ \E text \in AiTexts : AiReturns(o, text)
       \/ \E message \in AiErrors : AiFails(o, message)
       \/ DecodeFailed(o)
       \/ MarkCompleted(o)
       \/ MealCreate(o)
       \/ MedicineCreate(o)
       \/ BodyStatCreate(o)
       \/ TestCreate(o)
       \/ CatchAiError(o)

SpecRetries == InitFailed /\ [][NextRetries]_vars

\* ------------------------------------------------------------------ the
\* same handlers with the service answering from AiTextsDocs
NextDocs ==
  \/ \E r \in Requests : SubmitRequest(r)
  \/ \E u \in Users, j \in 1..MaxOps : RetryRequest(u, j)
  \/ \E o \in 1..MaxOps :
       \/ RetryReset(o)
       \/ RetryParseStart(o)
       \/ \E text \in AiTextsDocs : AiReturns(o, text)
       \/ \E message \in AiErrors : AiFails(o, message)
       \/ DecodeFailed(o)
       \/ MarkCompleted(o)
       \/ MealCreate(o)
       \/ MedicineCreate(o)
       \/ BodyStatCreate(o)
       \/ TestCreate(o)
       \/ CatchAiError(o)

SpecDocs == Init /\ [][NextDocs]_vars

\* ------------------------------------------------------------------ the
\* status query and the update of an entry

\* the response of getProcessingStatus for what findOne returned
StatusRes(journal, journalId) ==
  IF journal = <<>>
    THEN [NoRes EXCEPT !.status = 404, !.message = "Journal entry not found"]
    ELSE [NoRes EXCEPT
            !.status = 200,
            !.journalId = journalId,
            !.data = << [processingStatus |-> journal[1].processingStatus,
                         isProcessed |-> journal[1].isProcessed,
                         processingError |-> journal[1].processingError,
                         parsedData |-> journal[1].parsedData] >>]

\* the query with findById in place of findOne({ _id, userId })
GetProcessingStatusAnyUser(u, journalId) ==
  /\ Len(ops) < MaxOps
  /\ journalId \in 1..(Len(journals) + 1)
  /\ ops' = Append(ops, Respond(NewOp("status", u, <<>>, 0, journalId),
                                StatusRes(FindById(journalId, u), journalId)))
  /\ UNCHANGED <<journals, derived>>

\* the query that also gives up an entry it finds in processing
GetProcessingStatusExpires(u, journalId) ==
  /\ Len(ops) < MaxOps
  /\ journalId \in 1..(Len(journals) + 1)
  /\ ops' = Append(ops, Respond(NewOp("status", u, <<>>, 0, journalId),
                                StatusRes(FindOne(journalId, u), journalId)))
  /\ journals' = [j \in 1..Len(journals) |->
        IF j = journalId /\ journals[j].userId = u
             /\ journals[j].processingStatus = "processing"
          THEN [journals[j] EXCEPT !.processingStatus = "failed"]
          ELSE journals[j]]
  /\ UNCHANGED derived

\* GET /api/ai/status/:journalId
GetProcessingStatus(u, journalId) ==
  /\ Len(ops) < MaxOps
  /\ journalId \in 1..(Len(journals) + 1)
  /\ ops' = Append(ops, Respond(NewOp("status", u, <<>>, 0, journalId),
                                StatusRes(FindOne(journalId, u), journalId)))
  /\ UNCHANGED <<journals, derived>>

\* req.body of PUT /api/journals/:id
UpdateBodies ==
  { [rawText |-> <<" ", "c">>, date |-> 2], [rawText |-> <<" ">>, date |-> 2] }

\* PUT /api/journals/:id: findOneAndUpdate with runValidators; the setters
\* of journalSchema trim rawText, and an empty rawText is rejected
UpdateJournal(u, id, body) ==
  /\ Len(ops) < MaxOps
  /\ id \in 1..(Len(journals) + 1)
  /\ LET op      == NewOp("update", u, body.rawText, body.date, id)
         text    == Trim(body.rawText)
         journal == FindOne(id, u)
     IN  IF text = <<>>
           THEN /\ ops' = Append(ops, Respond(op,
                       [NoRes EXCEPT !.status = 500,
                                     !.message = "Server error during journal update"]))
                /\ UNCHANGED journals
         ELSE IF journal = <<>>
           THEN /\ ops' = Append(ops, Respond(op,
                       [NoRes EXCEPT !.status = 404,
                                     !.message = "Journal entry not found"]))
                /\ UNCHANGED journals
         ELSE /\ journals' = [journals EXCEPT ![id] =
                     [@ EXCEPT !.rawText = text, !.date = body.date]]
              /\ ops' = Append(ops, Respond(op,
                     [NoRes EXCEPT !.status = 200,
                                   !.message = "Journal entry updated successfully",
                                   !.journalId = id]))
  /\ UNCHANGED derived

NextApi ==
  \/ Next
  \/ \E u \in Users, j \in 1..MaxOps : GetProcessingStatus(u, j)
  \/ \E u \in Users, j \in 1..MaxOps, body \in UpdateBodies : UpdateJournal(u, j, body)

SpecApi == Init /\ [][NextApi]_vars

\* ================================================================== claims
OpIds == 1..Len(ops)
JournalIds == 1..Len(journals)

\* the entry a call of parseJournalEntry created: its local journalEntry,
\* and after the return the journalId of its response
EntryOf(o) ==
  IF ops[o].pc = "done" THEN ops[o].res.journalId ELSE ops[o].journalEntry

\* request o returns in this step
Returns(o) == o \in OpIds /\ o \in 1..Len(ops') /\ ops[o].pc # "done" /\ ops'[o].pc = "done"

\* request o arrives in this step
Arrives(o) == o \in 1..Len(ops') /\ o > Len(ops)

Blank(s) == \A i \in 1..Len(s) : s[i] = " "

\* t is s without the blanks at its two ends
IsTrimOf(t, s) ==
  /\ t = <<>> \/ (t[1] # " " /\ t[Len(t)] # " ")
  /\ \E i \in 0..Len(s) :
        /\ i + Len(t) <= Len(s)
        /\ Blank(SubSeq(s, 1, i))
        /\ SubSeq(s, i + 1, i + Len(t)) = t
        /\ Blank(SubSeq(s, i + Len(t) + 1, Len(s)))

\* the derived records that refer to entry j
MealsOf(j) == {i \in 1..Len(meals) : meals[i].journalEntryId = j}
MedicinesOf(j) == {i \in 1..Len(medicines) : medicines[i].journalEntryId = j}
BodyStatsOf(j) == {i \in 1..Len(bodyStats) : bodyStats[i].journalEntryId = j}
TestsOf(j) == {i \in 1..Len(tests) : tests[i].journalEntryId = j}
NoDerived(j) ==
  MealsOf(j) = {} /\ MedicinesOf(j) = {} /\ BodyStatsOf(j) = {} /\ TestsOf(j) = {}

AcceptedRetry(op) == op.kind = "retry" /\ op.pc = "done" /\ op.res.status \in {200, 500}

\* C1: a retry accepted for a failed entry creates no new JournalEntry: the
\* entry its pipeline works on, and the journalId it reports, is the id that
\* was passed in.  (The code calls parseJournalEntry, which starts with
\* Journal.create.)
C1_RetryReusesEntry ==
  \A o \in OpIds :
    ops[o].kind = "retry" =>
      /\ ops[o].journalEntry \in {0, ops[o].journalId}
      /\ AcceptedRetry(ops[o]) => ops[o].res.journalId = ops[o].journalId

\* C2 as stated: every submit with a non-empty rawText has created exactly
\* one entry, whose rawText is the trimmed input, and no entry is removed.
C2_EveryNonEmptyText ==
  \A o \in OpIds :
    ops[o].kind = "submit" /\ ops[o].rawText # <<>> =>
      /\ EntryOf(o) \in JournalIds
      /\ IsTrimOf(journals[EntryOf(o)].rawText, ops[o].rawText)

\* C2 as amended: every submit whose rawText is not blank has created
\* exactly one entry (its own, shared with no other call, and there are no
\* entries but those of the calls), whose rawText is the trimmed input
\* whatever the outcome of the extraction; the pipeline removes no entry and
\* changes no rawText.
C2_SubmitCreatesOneEntry ==
  /\ [](/\ \A o \in OpIds :
             ops[o].kind = "submit" /\ ~Blank(ops[o].rawText) =>
               /\ EntryOf(o) \in JournalIds
               /\ IsTrimOf(journals[EntryOf(o)].rawText, ops[o].rawText)
               /\ journals[EntryOf(o)].userId = ops[o].userId
        /\ \A o1, o2 \in OpIds :
             o1 # o2 /\ EntryOf(o1) # 0 => EntryOf(o1) # EntryOf(o2)
        /\ Len(journals) = Cardinality({o \in OpIds : EntryOf(o) # 0}))
  /\ [][\A j \in JournalIds :
          j \in 1..Len(journals') /\ journals'[j].rawText = journals[j].rawText]_vars

\* C2 witness: a submit of a text with blanks around it has returned a
\* failure and its entry holds the text without them
C2_Witness ==
  \E o \in OpIds :
    /\ ops[o].kind = "submit" /\ ops[o].pc = "done" /\ ops[o].res.status = 500
    /\ Len(ops[o].rawText) > Len(journals[ops[o].res.journalId].rawText)

\* what C3 promises of a run whose extraction output decoded to doc, at its
\* return, for its entry j
CompletedWith(j, doc) ==
  /\ journals'[j].processingStatus = "completed"
  /\ journals'[j].processingError = ""
  /\ journals'[j].parsedData = << doc >>
  /\ Cardinality({i \in 1..Len(meals') : meals'[i].journalEntryId = j}) = Len(doc.meals)
  /\ Cardinality({i \in 1..Len(medicines') : medicines'[i].journalEntryId = j})
       = Len(doc.medicines)
  /\ Cardinality({i \in 1..Len(tests') : tests'[i].journalEntryId = j}) = Len(doc.tests)
  /\ doc.bodyStats # <<>> =>
       \E i \in 1..Len(bodyStats') : bodyStats'[i].journalEntryId = j

\* C3: when the extraction service returns valid structured output, the run
\* ends with the entry completed, processingError unset, parsedData
\* populated and the derived records of the decoded structure in the stores.
C3_ValidOutputCompletes ==
  [][\A o \in OpIds :
       Returns(o) /\ ops[o].parsedData # <<>> =>
         CompletedWith(ops[o].journalEntry, ops[o].parsedData[1])]_vars

Linked(r) ==
  /\ r.isFromJournal
  /\ r.journalEntryId \in JournalIds
  /\ r.userId = journals[r.journalEntryId].userId

\* the request whose pipeline took this step: it processes entry j
Processing(j) ==
  \E o \in InFlight :
    /\ ops'[o] # ops[o]
    /\ ops[o].pc \in {"p_meals", "p_medicines", "p_bodyStats", "p_tests"}
    /\ ops[o].journalEntry = j
    /\ ops[o].userId = journals[j].userId

\* C4: every Meal, Medicine, BodyStat and Test record in the stores is
\* marked isFromJournal, refers to an existing JournalEntry of the same
\* owner, and was appended by a step of the request that processes that
\* entry.
C4_DerivedRecordsLinked ==
  /\ [](/\ \A i \in 1..Len(meals) : Linked(meals[i])
        /\ \A i \in 1..Len(medicines) : Linked(medicines[i])
        /\ \A i \in 1..Len(bodyStats) : Linked(bodyStats[i])
        /\ \A i \in 1..Len(tests) : Linked(tests[i]))
  /\ [][/\ Len(meals') > Len(meals) =>
             Processing(meals'[Len(meals')].journalEntryId)
        /\ Len(medicines') > Len(medicines) =>
             Processing(medicines'[Len(medicines')].journalEntryId)
        /\ Len(bodyStats') > Len(bodyStats) =>
             Processing(bodyStats'[Len(bodyStats')].journalEntryId)
        /\ Len(tests') > Len(tests) =>
             Processing(tests'[Len(tests')].journalEntryId)]_vars

\* C4 witness: one run has written a record of each of the four types
C4_Witness ==
  \E j \in JournalIds :
    MealsOf(j) # {} /\ MedicinesOf(j) # {} /\ BodyStatsOf(j) # {} /\ TestsOf(j) # {}

\* the text is no document of Docs with blanks around it
Undecodable(text) == ~ \E d \in DOMAIN Docs : IsTrimOf(<< d >>, text)

\* request o returns in this step from a run whose extraction call returned
\* a text that cannot be decoded
ReturnsUndecoded(o) ==
  Returns(o) /\ ops[o].aiResponse # <<>> /\ Undecodable(ops[o].aiResponse)

RetryArrives(o) == Arrives(o) /\ ops'[o].kind = "retry"
Owned(j, u) == j \in JournalIds /\ journals[j].userId = u

\* C6: a retry is accepted only when the entry it names is failed at the
\* time it is read; a retry of the requester's own entry in any other status
\* returns 400 in the same step, which changes no entry and no derived
\* record, and the request takes no further step.
C6_RetryOnlyFailed ==
  [][\A o \in 1..Len(ops') :
       /\ RetryArrives(o) /\ Owned(ops'[o].journalId, ops'[o].userId) =>
            IF journals[ops'[o].journalId].processingStatus = "failed"
              THEN ops'[o].pc = "r_reset"
              ELSE /\ ops'[o].pc = "done"
                   /\ ops'[o].res.status = 400
                   /\ ops'[o].res.journalId = 0
                   /\ UNCHANGED <<journals, derived>>
       /\ o \in OpIds /\ ops[o].pc = "done" => ops'[o] = ops[o]]_vars

\* C6 witness: retries of a completed and of a processing entry were rejected
C6_Witness ==
  \E o \in OpIds :
    /\ ops[o].kind = "retry" /\ ops[o].res.status = 400
    /\ journals[ops[o].journalId].processingStatus \in {"completed", "processing"}

\* C7: a retry that names no entry, or an entry of another user, returns
\* 404 in the step that reads it: no entry and no derived record changes,
\* and the request never reaches the extraction call.
C7_RetryNotFound ==
  [][\A o \in 1..Len(ops') :
       /\ RetryArrives(o) /\ ~Owned(ops'[o].journalId, ops'[o].userId) =>
            /\ ops'[o].pc = "done"
            /\ ops'[o].res.status = 404
            /\ ops'[o].res.journalId = 0
            /\ UNCHANGED <<journals, derived>>
       /\ o \in OpIds /\ ops[o].pc = "done" => ops'[o] = ops[o]]_vars

\* C7 witness: a retry of another user's failed entry returned 404 and the
\* entry is still failed
C7_Witness ==
  \E o \in OpIds :
    /\ ops[o].kind = "retry" /\ ops[o].res.status = 404
    /\ ops[o].journalId \in JournalIds
    /\ journals[ops[o].journalId].userId # ops[o].userId
    /\ journals[ops[o].journalId].processingStatus = "failed"

\* C8: when an accepted retry returns, the entry it retried has left
\* pending and is completed or failed.
C8_RetriedEntryFinishes ==
  [][\A o \in OpIds :
       Returns(o) /\ ops[o].kind = "retry" /\ ops[o].journalEntry # 0 =>
         journals'[ops[o].journalId].processingStatus \in {"completed", "failed"}]_vars

\* C9: processingError is non-empty exactly on the failed entries.
C9_ErrorIffFailed ==
  \A j \in JournalIds :
    journals[j].processingError # "" <=> journals[j].processingStatus = "failed"

\* C9 witness: a failed entry with its error next to a retried entry whose
\* error was cleared
C9_Witness ==
  \E j, k \in JournalIds :
    /\ journals[j].processingStatus = "failed" /\ journals[j].processingError # ""
    /\ journals[k].processingStatus = "pending" /\ journals[k].processingError = ""
    /\ journals[k].aiResponse # <<>>

LegalChanges ==
  { <<"pending", "processing">>, <<"processing", "completed">>,
    <<"processing", "failed">>, <<"failed", "pending">> }

\* C10: every change of an entry's processingStatus is pending ->
\* processing, processing -> completed, processing -> failed or failed ->
\* pending.
C10_LegalStatusChanges ==
  [][\A j \in JournalIds :
       journals'[j].processingStatus # journals[j].processingStatus =>
         << journals[j].processingStatus, journals'[j].processingStatus >>
           \in LegalChanges]_vars

\* a derived write of request o was rejected after a successful decode: the
\* handler stands in catch (aiError) with the decoded structure
WriteRejected(o) == ops[o].pc = "p_catch" /\ ops[o].parsedData # <<>>

\* C11: when the decode succeeded and a derived write fails, the run still
\* ends with the entry completed and a success response.
C11_WriteFailureStillCompletes ==
  [][\A o \in OpIds :
       Returns(o) /\ WriteRejected(o) =>
         /\ journals'[ops[o].journalEntry].processingStatus = "completed"
         /\ ops'[o].res.status = 200]_vars

\* every item of the decoded structure that its schema accepts has its
\* record in the stores after this step
AcceptedItemsWritten(op) ==
  LET j   == op.journalEntry
      doc == op.parsedData[1]
  IN  /\ \A i \in 1..Len(doc.meals) :
            LET rec == MealRecord(op.userId, op.date, j, doc.meals[i])
            IN  MealValid(rec) => \E k \in 1..Len(meals') : meals'[k] = rec
      /\ \A i \in 1..Len(doc.medicines) :
            LET rec == MedicineRecord(op.userId, op.date, j, doc.medicines[i])
            IN  MedicineValid(rec) => \E k \in 1..Len(medicines') : medicines'[k] = rec
      /\ \A i \in 1..Len(doc.bodyStats) :
            LET rec == BodyStatRecord(op.userId, op.date, j, doc.bodyStats[i])
            IN  BodyStatValid(rec) => \E k \in 1..Len(bodyStats') : bodyStats'[k] = rec
      /\ \A i \in 1..Len(doc.tests) :
            LET rec == TestRecord(op.userId, op.date, j, doc.tests[i])
            IN  TestValid(rec) => \E k \in 1..Len(tests') : tests'[k] = rec

\* C12: the four groups of the fan-out are independent: when a write of one
\* type is rejected, the writes of the other types are still attempted, so
\* the run returns with every acceptable item of the other groups written.
C12_OtherGroupsAttempted ==
  [][\A o \in OpIds :
       Returns(o) /\ WriteRejected(o) => AcceptedItemsWritten(ops[o])]_vars

\* the numbers of Meal, Medicine, BodyStat and Test records that refer to
\* entry j after this step
WrittenFor(j) ==
  << Cardinality({i \in 1..Len(meals') : meals'[i].journalEntryId = j}),
     Cardinality({i \in 1..Len(medicines') : medicines'[i].journalEntryId = j}),
     Cardinality({i \in 1..Len(bodyStats') : bodyStats'[i].journalEntryId = j}),
     Cardinality({i \in 1..Len(tests') : tests'[i].journalEntryId = j}) >>

\* C13: in every response that carries createdItems, the counts of meals,
\* medicines, bodyStats and tests are the numbers of records of that type
\* the run wrote.
C13_CreatedItemsAreWritten ==
  [][\A o \in OpIds :
       Returns(o) /\ ops'[o].res.status = 200 =>
         ops'[o].res.created = WrittenFor(ops[o].journalEntry)]_vars

\* C13 witness: a success response that reports one meal, no medicine, one
\* bodyStats record and no test, next to the one Meal of its entry
C13_Witness ==
  \E o \in OpIds :
    /\ ops[o].pc = "done" /\ ops[o].res.status = 200
    /\ ops[o].res.created = <<1, 0, 1, 0>>
    /\ Cardinality(MealsOf(ops[o].res.journalId)) = 1
    /\ MedicinesOf(ops[o].res.journalId) = {}

\* request o stands before a write of the fan-out
InFanOut(o) == ops[o].pc \in {"p_meals", "p_medicines", "p_bodyStats", "p_tests"}

\* C14: within one run every write of the fan-out has finished before the
\* processingStatus of the entry becomes completed or failed: while a
\* derived record of a run is still to be written, its entry is not read as
\* completed or failed.
C14_FanOutBeforeStatus ==
  \A o \in InFlight :
    InFanOut(o) =>
      journals[ops[o].journalEntry].processingStatus \notin {"completed", "failed"}

\* the extraction call of request o was rejected: the handler stands in
\* catch (aiError) and no text was returned
TransportFailed(o) == ops[o].pc = "p_catch" /\ ops[o].aiResponse = <<>>

\* C15: when the extraction call errors or times out, the run ends with its
\* entry retained, in status failed, with processingError holding the
\* description of the error (the fixed text 'AI API call failed' when the
\* error has none), parsedData unset and no derived record.
C15_TransportFailure ==
  [][\A o \in OpIds :
       Returns(o) /\ TransportFailed(o) =>
         LET j == ops[o].journalEntry
         IN  /\ j \in 1..Len(journals')
             /\ journals'[j].rawText = journals[j].rawText
             /\ journals'[j].userId = ops[o].userId
             /\ journals'[j].processingStatus = "failed"
             /\ journals'[j].processingError =
                  (IF ops[o].err = "" THEN "AI API call failed" ELSE ops[o].err)
             /\ journals'[j].parsedData = <<>>
             /\ WrittenFor(j) = <<0, 0, 0, 0>>
             /\ ops'[o].res.status = 500]_vars

\* C15 witness: an entry that failed with the error of the connection next
\* to one that failed with an error that had no message
C15_Witness ==
  \E j, k \in JournalIds :
    /\ journals[j].processingStatus = "failed"
    /\ journals[j].processingError = "connect ETIMEDOUT"
    /\ journals[j].parsedData = <<>> /\ NoDerived(j)
    /\ journals[k].processingStatus = "failed"
    /\ journals[k].processingError = "AI API call failed"
    /\ \E o \in OpIds : ops[o].pc = "done" /\ ops[o].res.status = 500
                        /\ ops[o].res.journalId = j

\* C16: every failure response of submit and of retry, whichever step
\* failed (the extraction call, the decode, a store write, a status
\* update), carries the journalId of the entry the operation worked on.
C16_FailureCarriesJournalId ==
  [][\A o \in OpIds :
       Returns(o) /\ ops'[o].res.status >= 400 =>
         /\ ops'[o].res.journalId # 0
         /\ ops'[o].res.journalId \in {ops[o].journalEntry, ops[o].journalId}]_vars

StatusArrives(o) == Arrives(o) /\ ops'[o].kind = "status"

\* the four fields a status response shows of entry j
Shown(j) ==
  << [processingStatus |-> journals[j].processingStatus,
      isProcessed |-> journals[j].isProcessed,
      processingError |-> journals[j].processingError,
      parsedData |-> journals[j].parsedData] >>

\* C17: getProcessingStatus changes nothing: the step of a status query
\* leaves every JournalEntry, every derived record and every other request
\* as they were, and its result is read off the entry as it stands, so two
\* queries with no step of a pipeline between them return the same result.
C17_StatusQueryReadsOnly ==
  [][\A o \in 1..Len(ops') :
       StatusArrives(o) =>
         /\ UNCHANGED <<journals, derived>>
         /\ \A p \in OpIds : ops'[p] = ops[p]
         /\ ops'[o].pc = "done"
         /\ Owned(ops'[o].journalId, ops'[o].userId) =>
              /\ ops'[o].res.status = 200
              /\ ops'[o].res.journalId = ops'[o].journalId
              /\ ops'[o].res.data = Shown(ops'[o].journalId)]_vars

\* C17 witness: a status query answered completed while the request that
\* processes the entry still stands in its fan-out, the entry as it was
C17_Witness ==
  \E o, p \in OpIds :
    /\ ops[o].kind = "status" /\ ops[o].res.status = 200
    /\ ops[o].res.data[1].processingStatus = "completed"
    /\ p < o /\ InFanOut(p) /\ ops[p].journalEntry = ops[o].journalId
    /\ journals[ops[o].journalId].processingStatus = "completed"

\* C18: getProcessingStatus for an entry that is not the requester's (or
\* that does not exist) answers 404 'Journal entry not found' and shows none
\* of processingStatus, isProcessed, processingError and parsedData.
C18_StatusNotFound ==
  [][\A o \in 1..Len(ops') :
       StatusArrives(o) /\ ~Owned(ops'[o].journalId, ops'[o].userId) =>
         /\ ops'[o].pc = "done"
         /\ ops'[o].res.status = 404
         /\ ops'[o].res.message = "Journal entry not found"
         /\ ops'[o].res.data = <<>>
         /\ ops'[o].res.journalId = 0]_vars

\* C18 witness: a status query for another user's entry, which has a
\* decoded structure or an error to show, was answered 404
C18_Witness ==
  \E o \in OpIds :
    /\ ops[o].kind = "status" /\ ops[o].res.status = 404
    /\ ops[o].journalId \in JournalIds
    /\ journals[ops[o].journalId].userId # ops[o].userId
    /\ \/ journals[ops[o].journalId].parsedData # <<>>
       \/ journals[ops[o].journalId].processingError # ""

ResetByRetry(j) ==
  \E o \in OpIds :
    /\ ops[o].kind = "retry" /\ ops[o].journalId = j
    /\ ops[o].pc \notin {"start", "r_reset"}
    /\ ops[o].pc = "done" => ops[o].res.status \in {200, 500}

\* C20: an entry is created with processingStatus processing: the step that
\* stores a new entry stores it as processing, and an entry is pending only
\* after a retry has reset it, never as a newly submitted entry.
C20_CreatedProcessing ==
  /\ [](\A j \in JournalIds :
          journals[j].processingStatus = "pending" => ResetByRetry(j))
  /\ [][\A j \in 1..Len(journals') :
          j > Len(journals) =>
            /\ journals'[j].processingStatus = "processing"
            /\ ~journals'[j].isProcessed]_vars

\* C20 witness: a submission waits for the extraction service and the entry
\* it created is in processing
C20_Witness ==
  \E o \in InFlight :
    /\ ops[o].kind = "submit" /\ ops[o].pc = "p_ai"
    /\ ops[o].journalEntry \in JournalIds
    /\ journals[ops[o].journalEntry].processingStatus = "processing"

\* the decoded structure has a bodyStats object with at least one field set
BodyStatFieldPresent(doc) == doc.bodyStats # <<>> /\ doc.bodyStats[1] # NoBodyStats

\* C21: a run creates a BodyStat record exactly when at least one body-stat
\* field is present in the decoded structure, and at most one: a run whose
\* writes all succeeded returns with one BodyStat of its entry when a field
\* is present and with none when no field is (a bodyStats object with no
\* field set creates no record).
C21_BodyStatIffFieldPresent ==
  [][\A o \in OpIds :
       Returns(o) /\ ops'[o].res.status = 200 =>
         LET n == WrittenFor(ops[o].journalEntry)[3]
         IN  /\ n <= 1
             /\ n = 1 <=> BodyStatFieldPresent(ops[o].parsedData[1])]_vars

\* C22: a run whose writes all succeeded returns with one Meal of its entry
\* per decoded meal, one Medicine per decoded medicine and one Test per
\* decoded test, none for an empty list, and with its entry completed.
C22_OneRecordPerItem ==
  [][\A o \in OpIds :
       Returns(o) /\ ops'[o].res.status = 200 =>
         LET j   == ops[o].journalEntry
             doc == ops[o].parsedData[1]
         IN  /\ WrittenFor(j)[1] = Len(doc.meals)
             /\ WrittenFor(j)[2] = Len(doc.medicines)
             /\ WrittenFor(j)[4] = Len(doc.tests)
             /\ \A i \in 1..Len(doc.meals) :
                  \E k \in 1..Len(meals') :
                    /\ meals'[k].journalEntryId = j
                    /\ Len(meals'[k].foodItems) = Len(doc.meals[i].items)
                    /\ meals'[k].foodItems[1].name = doc.meals[i].items[1]
             /\ \A i \in 1..Len(doc.medicines) :
                  \E k \in 1..Len(medicines') :
                    /\ medicines'[k].journalEntryId = j
                    /\ medicines'[k].name = doc.medicines[i].name
             /\ \A i \in 1..Len(doc.tests) :
                  \E k \in 1..Len(tests') :
                    /\ tests'[k].journalEntryId = j
                    /\ tests'[k].testName = doc.tests[i].testName
             /\ journals'[j].processingStatus = "completed"
             /\ journals'[j].processingError = ""]_vars

\* C22 witness: a completed entry with no Meal and one BodyStat, decoded
\* from a structure with an empty list of meals, next to a completed entry
\* with the two Meals, the Medicine and the Test of its structure
C22_Witness ==
  \E j, k \in JournalIds :
    /\ journals[j].processingStatus = "completed"
    /\ journals[j].parsedData = << SleepDoc >>
    /\ MealsOf(j) = {} /\ Cardinality(BodyStatsOf(j)) = 1
    /\ journals[k].processingStatus = "completed"
    /\ Cardinality(MealsOf(k)) = 2 /\ Cardinality(MedicinesOf(k)) = 1
    /\ Cardinality(TestsOf(k)) = 1
    /\ \A o \in OpIds : ops[o].pc = "done" /\ ops[o].res.status = 200

\* request o writes a Meal in this step
WritesMeal(o) ==
  /\ o \in InFlight /\ ops[o].pc = "p_meals" /\ ops'[o] # ops[o]
  /\ Len(meals') = Len(meals) + 1

\* C23: a decoded meal with n items gives one Meal record with n food
\* items, one per item name in the order of the list, all with the quantity
\* of the meal block ('1 serving' when it has none) and all with its
\* calories (0 when it has none).
C23_MealItemsShareQuantity ==
  [][\A o \in OpIds :
       WritesMeal(o) =>
         LET mealData == ops[o].parsedData[1].meals[ops[o].idx]
             rec      == meals'[Len(meals')]
             quantity == IF mealData.quantity = "" THEN "1 serving"
                         ELSE mealData.quantity
         IN  /\ SubSeq(meals', 1, Len(meals)) = meals
             /\ Len(rec.foodItems) = Len(mealData.items)
             /\ \A i \in 1..Len(mealData.items) :
                  /\ rec.foodItems[i].name = mealData.items[i]
                  /\ rec.foodItems[i].quantity = quantity
                  /\ rec.foodItems[i].calories = mealData.calories]_vars

\* C23 witness: the Meal of the block with two items, a quantity and
\* calories, and the Meal of the block that has neither
C23_Witness ==
  \E a, b \in 1..Len(meals) :
    /\ Len(meals[a].foodItems) = 2
    /\ meals[a].foodItems[1].name = "idli" /\ meals[a].foodItems[2].name = "sambar"
    /\ meals[a].foodItems[2].quantity = "1 plate"
    /\ meals[a].foodItems[2].calories = 300
    /\ Len(meals[b].foodItems) = 1
    /\ meals[b].foodItems[1].quantity = "1 serving"
    /\ meals[b].foodItems[1].calories = 0

\* entry j becomes completed in this step
Completes(j) ==
  /\ journals[j].processingStatus # "completed"
  /\ journals'[j].processingStatus = "completed"

\* the three fields that go with completed are set on entry j
CompletedFieldsSet(j) ==
  /\ journals[j].parsedData # <<>>
  /\ journals[j].aiResponse # <<>>
  /\ journals[j].isProcessed

Steps(o) == o \in OpIds /\ ops'[o] # ops[o]

\* the dates of the derived records appended in this step
NewDates ==
  {meals'[i].date : i \in (Len(meals) + 1)..Len(meals')}
    \cup {medicines'[i].startDate : i \in (Len(medicines) + 1)..Len(medicines')}
    \cup {bodyStats'[i].date : i \in (Len(bodyStats) + 1)..Len(bodyStats')}
    \cup {tests'[i].date : i \in (Len(tests) + 1)..Len(tests')}

\* C25: a retry runs the pipeline on the rawText and date stored on the
\* entry it retries: the request carries no text, the entry its pipeline
\* opens has the stored rawText and date, and every derived record it writes
\* carries the stored date.
C25_RetryUsesStoredText ==
  [][\A o \in 1..Len(ops') :
       /\ RetryArrives(o) => ops'[o].rawText = <<>> /\ ops'[o].date = 0
       /\ o \in OpIds /\ ops[o].kind = "retry" /\ Steps(o) =>
            LET j == ops[o].journalId
            IN  /\ \A k \in (Len(journals) + 1)..Len(journals') :
                     /\ journals'[k].rawText = journals[j].rawText
                     /\ journals'[k].date = journals[j].date
                     /\ journals'[k].userId = journals[j].userId
                /\ \A d \in NewDates : d = journals[j].date]_vars

\* C25 witness: a retry has returned 200; the entry it opened has the text
\* and the date 1 of the entry it retried, and so has the Meal it wrote
C25_Witness ==
  \E o \in OpIds :
    /\ ops[o].kind = "retry" /\ ops[o].pc = "done" /\ ops[o].res.status = 200
    /\ journals[ops[o].journalId].date = 1
    /\ journals[ops[o].res.journalId].date = 1
    /\ journals[ops[o].res.journalId].rawText = journals[ops[o].journalId].rawText
    /\ \E i \in MealsOf(ops[o].res.journalId) : meals[i].date = 1

\* request o is a retry that passed the two checks of retryProcessing
PassedCheck(o) ==
  /\ ops[o].kind = "retry"
  /\ ops[o].pc = "done" => ops[o].res.status \in {200, 500}

\* C26: retries of one entry are not coordinated: the step in which a
\* retry passes the failed-status check writes nothing, so the entry is still
\* failed after it and a second retry of the same entry passes the same check
\* before the first resets the status.
C26_CheckAndResetApart ==
  [][\A o \in 1..Len(ops') :
       RetryArrives(o) /\ ops'[o].pc # "done" =>
         /\ UNCHANGED <<journals, derived>>
         /\ journals'[ops'[o].journalId].processingStatus = "failed"
         /\ Retryable(journals'[ops'[o].journalId])
         /\ ops'[o].pc = "r_reset"]_vars

\* C26 witness: two retries of the same entry have both passed the check
\* and both have run the pipeline to its end, each on an entry of its own
C26_Witness ==
  \E o, p \in OpIds :
    /\ o # p
    /\ PassedCheck(o) /\ PassedCheck(p)
    /\ ops[o].journalId = ops[p].journalId
    /\ ops[o].pc = "done" /\ ops[p].pc = "done"
    /\ ops[o].res.status = 200 /\ ops[p].res.status = 200
    /\ ops[o].res.journalId # ops[p].res.journalId
    /\ journals[ops[o].journalId].processingStatus = "pending"

\* the entries of the derived records appended in this step
NewLinks ==
  {meals'[i].journalEntryId : i \in (Len(meals) + 1)..Len(meals')}
    \cup {medicines'[i].journalEntryId : i \in (Len(medicines) + 1)..Len(medicines')}
    \cup {bodyStats'[i].journalEntryId : i \in (Len(bodyStats) + 1)..Len(bodyStats')}
    \cup {tests'[i].journalEntryId : i \in (Len(tests) + 1)..Len(tests')}

\* what the outcome of a run by itself makes of its entry: status,
\* processingError and parsedData, read off the handler that returns
OwnOutcome(op) ==
  IF op.pc = "p_decfail"
    THEN << "failed", "Failed to parse AI response as JSON", <<>> >>
  ELSE IF op.pc = "p_catch"
    THEN << "failed", IF op.err = "" THEN "AI API call failed" ELSE op.err,
            op.parsedData >>
  ELSE << "completed", "", op.parsedData >>

\* C27: operations on different entries do not interfere, whatever the
\* interleaving: an entry is written only by the request that processes it
\* (or by the reset of a retry accepted for it), a derived record is linked
\* to the entry of the request that writes it, and a run returns with the
\* status, processingError and parsedData of its entry as its own
\* extraction outcome alone determines them.
C27_NoInterference ==
  [][/\ \A j \in JournalIds :
          journals'[j] # journals[j] =>
            \E o \in InFlight :
              /\ Steps(o)
              /\ \/ ops[o].journalEntry = j
                 \/ ops[o].pc = "r_reset" /\ ops[o].journalId = j
     /\ \A k \in NewLinks :
          \E o \in InFlight : Steps(o) /\ ops[o].journalEntry = k
     /\ \A o \in OpIds :
          Returns(o) /\ ops[o].journalEntry # 0 =>
            LET e == journals'[ops[o].journalEntry]
            IN  << e.processingStatus, e.processingError, e.parsedData >>
                  = OwnOutcome(ops[o])]_vars

\* C27 witness: two requests ran interleaved, the later entry got its Meal
\* before the earlier one, and they ended differently: one completed with
\* its structure, the other failed
C27_Witness ==
  \E a, b \in 1..Len(meals) :
    /\ a < b /\ meals[a].journalEntryId > meals[b].journalEntryId
    /\ journals[meals[a].journalEntryId].processingStatus = "completed"
    /\ journals[meals[b].journalEntryId].processingStatus = "failed"
    /\ \A o \in OpIds : ops[o].pc = "done"

\* store t holds every record of store s, at the same place
Keeps(s, t) == Len(t) >= Len(s) /\ SubSeq(t, 1, Len(s)) = s

\* C28: the fan-out has no rollback: no step removes or changes a derived
\* record or removes an entry or changes its rawText, and the run that
\* returns after a rejected write leaves every record it wrote in the stores
\* and its entry with its rawText.
C28_NoRollback ==
  [][/\ Keeps(meals, meals') /\ Keeps(medicines, medicines')
     /\ Keeps(bodyStats, bodyStats') /\ Keeps(tests, tests')
     /\ Len(journals') >= Len(journals)
     /\ \A j \in JournalIds : journals'[j].rawText = journals[j].rawText
     /\ \A o \in OpIds :
          Returns(o) /\ WriteRejected(o) =>
            /\ derived' = derived
            /\ journals'[ops[o].journalEntry].rawText # <<>>
            /\ journals'[ops[o].journalEntry].userId = ops[o].userId]_vars

\* C28 witness: a run has returned after BodyStat.create rejected its
\* record; the Meal it wrote before is in the store and its entry is there,
\* failed, with its rawText
C28_Witness ==
  \E o \in OpIds :
    /\ ops[o].pc = "done" /\ ops[o].res.status = 500
    /\ journals[ops[o].res.journalId].processingError = "BodyStat validation failed"
    /\ journals[ops[o].res.journalId].rawText # <<>>
    /\ MealsOf(ops[o].res.journalId) # {}
    /\ BodyStatsOf(ops[o].res.journalId) = {}

\* C29: on every entry, in every state, isProcessed is true exactly when
\* processingStatus is completed.
C29_ProcessedIffCompleted ==
  \A j \in JournalIds :
    journals[j].isProcessed <=> journals[j].processingStatus = "completed"

\* a record without the entry it is linked to
Unlinked(r) == [r EXCEPT !.journalEntryId = 0]

\* C30: over a submission and its retries each decoded item gives at most
\* one derived record: no record of the entry a retry opened repeats a
\* record of the entry it retried.
C30_RetryWritesNoCopy ==
  \A o \in OpIds :
    ops[o].kind = "retry" /\ EntryOf(o) # 0 =>
      LET j == ops[o].journalId
          k == EntryOf(o)
      IN  /\ \A a \in MealsOf(j), b \in MealsOf(k) :
               Unlinked(meals[a]) # Unlinked(meals[b])
          /\ \A a \in MedicinesOf(j), b \in MedicinesOf(k) :
               Unlinked(medicines[a]) # Unlinked(medicines[b])
          /\ \A a \in BodyStatsOf(j), b \in BodyStatsOf(k) :
               Unlinked(bodyStats[a]) # Unlinked(bodyStats[b])
          /\ \A a \in TestsOf(j), b \in TestsOf(k) :
               Unlinked(tests[a]) # Unlinked(tests[b])

====
